---- MODULE Spec2Model ----
(***************************************************************************)
(* Model of the contacts backend: the authentication path (registration,   *)
(* login, e-mail confirmation, password reset, and the cache-first         *)
(* get_current_user resolver of src/app/services/auth.py) with the         *)
(* persistent user store, the Redis cache, the mail queue and the clock,   *)
(* and the contacts table with its repository and service.                 *)
(*                                                                         *)
(* Requests run as asyncio tasks: a handler with several awaits is one     *)
(* action per await, so that other requests interleave between them.       *)
(***************************************************************************)
EXTENDS Integers, FiniteSets, Sequences, TLC

\* ------------------------------------------------------------------ bounds
\* The clock advances at most MaxTicks times.
MaxTicks == 3
\* At most MaxTokens access tokens are issued by login.
MaxTokens == 1
\* At most MaxMails mails are enqueued.
MaxMails == 2
\* At most MaxContacts contacts are stored at a time.
MaxContacts == 2
\* Clock resolution: clock units per second (time.time() is fractional,
\* the iat/exp claims of a token are whole seconds).
SubSecond == 2

\* ------------------------------------------------------ program constants
\* settings.JWT_EXPIRATION_SECONDS, the configured access-token TTL.
JWT_EXPIRATION_SECONDS == 1
\* timedelta(minutes=...) in create_access_token: a minute is 60 seconds.
SecondsPerMinute == 60
\* timedelta(days=7) in create_email_token, in seconds.
EmailTokenSeconds == 604800

\* ------------------------------------------------------------ input sets
Tasks == {"t1", "t2"}
\* A username is any string; "bob@x" is one that is also an e-mail address.
Usernames == {"alice", "bob@x"}
Emails == {"alice@x", "bob@x"}
Passwords == {"p1", "p2"}

None == [none |-> TRUE]
NoResp == [op |-> "none"]
Idle == [pc |-> "idle"]

VARIABLES
    users,   \* the users table: a set of User rows
    cache,   \* the Redis store: a set of [key, value, exat]
    mails,   \* mails handed to BackgroundTasks: [template, recipient, token]
    issued,  \* access tokens returned by login
    clock,   \* wall-clock time, in 1/SubSecond seconds
    contacts, \* the contacts table: a set of Contact rows
    task,    \* per request slot: the position and locals of a suspended handler
    resp     \* the response delivered by the last step, NoResp if none

vars == <<users, cache, mails, contacts, issued, clock, task, resp>>

\* ------------------------------------------------------------------ clock
\* The clock moves by the smallest unit, or jumps by the life of an access
\* token.
JumpStep == SubSecond * SecondsPerMinute * JWT_EXPIRATION_SECONDS
ClockSteps == {1, JumpStep}
TickCount(c) == (c \div JumpStep) + (c % JumpStep)
\* The life of a purpose token (timedelta(days=7)), in clock units.
WeekStep == SubSecond * EmailTokenSeconds

\* datetime -> JWT NumericDate (jose: timegm(utctimetuple())): whole seconds.
Seconds(c) == c \div SubSecond

\* --------------------------------------------------------- password hashes
\* pwd_context.hash: a bcrypt hash of the password.
get_password_hash(password) == [scheme |-> "bcrypt", of |-> password]

\* pwd_context.verify identifies the scheme of the stored hash first: a value
\* that is no bcrypt hash raises passlib.exc.UnknownHashError.
HashMalformed(hashed_password) == hashed_password.scheme # "bcrypt"

\* pwd_context.verify: whether the hash is one of the plain password.
verify_password(plain_password, hashed_password) ==
    hashed_password.of = plain_password

\* ------------------------------------------------------------------ tokens
\* jwt.encode(to_encode, settings.JWT_SECRET): the claims under the
\* configured secret's signature.
JwtEncode(sub, iat, exp) ==
    [sub |-> sub, iat |-> iat, exp |-> exp, key |-> "JWT_SECRET"]

\* Mutant: the explicit expires_delta is not used.
AccessDeltaDefaultOnly(expires_delta) ==
    SubSecond * SecondsPerMinute * JWT_EXPIRATION_SECONDS

\* expires_delta or timedelta(minutes=settings.JWT_EXPIRATION_SECONDS): a
\* timedelta, in clock units. None and timedelta(0) are both falsy: an
\* absent expires_delta is written 0.
AccessDelta(expires_delta) ==
    IF expires_delta # 0 THEN expires_delta
    ELSE SubSecond * SecondsPerMinute * JWT_EXPIRATION_SECONDS

\* now = datetime.now(UTC); iat = now, exp = now + delta; jwt.encode turns
\* each datetime into whole seconds.
create_access_token(sub, expires_delta, c) ==
    JwtEncode(sub, Seconds(c), Seconds(c + AccessDelta(expires_delta)))

\* The time create_email_token takes between its two reads of the clock, in
\* clock units: less than the clock resolves, or one unit.
Lags(c) == IF c > 0 THEN {0, 1} ELSE {0}

\* expire = datetime.now(UTC) + timedelta(days=7), then iat = datetime.now(UTC)
\* read anew (lines 99-100): the call returns at time c, having read the
\* clock for expire lag units earlier; jwt.encode turns each datetime into
\* whole seconds.
create_email_token(sub, c, lag) ==
    JwtEncode(sub, Seconds(c), Seconds(c - lag) + EmailTokenSeconds)

\* Mutant: the signature is not verified.
JwtDecodeUnverified(token, c) == token.exp < Seconds(c)

\* jwt.decode(token, settings.JWT_SECRET, algorithms=[...]) with jose's default
\* options: the signature is verified, and so is exp (verify_exp, leeway 0):
\* ExpiredSignatureError, a JWTError, when exp < int(now).
JwtDecodeFails(token, c) ==
    \/ token.key # "JWT_SECRET"
    \/ token.exp < Seconds(c)

\* The payload jwt.decode returns for a token it accepts.
JwtClaims(token) == [sub |-> token.sub, iat |-> token.iat, exp |-> token.exp]

\* A token signed with a secret other than the configured one.
Forged == {[sub |-> "alice", iat |-> 0, exp |-> EmailTokenSeconds, key |-> "other"]}

\* The tokens a client can present: those handed out, and forged ones.
Presentable == issued \cup {m.token : m \in mails} \cup Forged

\* ------------------------------------------------------------- user store
\* Mutant: the lookup matches the email column as well.
GetUserByUsernameOrEmail(username) ==
    IF \E u \in users : u.username = username \/ u.email = username
    THEN CHOOSE u \in users : u.username = username \/ u.email = username
    ELSE None

GetUserByUsername(username) ==
    IF \E u \in users : u.username = username
    THEN CHOOSE u \in users : u.username = username
    ELSE None

\* Mutant: the lookup matches the username column as well.
GetUserByEmailOrUsername(email) ==
    IF \E u \in users : u.email = email \/ u.username = email
    THEN CHOOSE u \in users : u.email = email \/ u.username = email
    ELSE None

GetUserByEmail(email) ==
    IF \E u \in users : u.email = email
    THEN CHOOSE u \in users : u.email = email
    ELSE None

\* Mutant: username and email are taken from each other's column.
TransformUserModelSwapped(user) ==
    IF user = None THEN None
    ELSE [id |-> user.id, username |-> user.email, email |-> user.username,
          role |-> user.role, confirmed |-> user.confirmed,
          avatar |-> user.avatar]

\* UserModel.model_validate(user): the response / cache snapshot of a row.
TransformUserModel(user) ==
    IF user = None THEN None
    ELSE [id |-> user.id, username |-> user.username, email |-> user.email,
          role |-> user.role, confirmed |-> user.confirmed,
          avatar |-> user.avatar]

\* User(**body.model_dump(exclude={"password"}), hashed_password=..., avatar=None)
NewUser(body) ==
    [id |-> Cardinality(users) + 1, username |-> body.username,
     email |-> body.email,
     hashed_password |-> get_password_hash(body.password),
     confirmed |-> FALSE, role |-> "user", avatar |-> "None"]

\* The users table is unique on username and on email: the commit of a row
\* that repeats either raises IntegrityError.
UniqueViolation(user) ==
    \E u \in users : u.username = user.username \/ u.email = user.email

\* ------------------------------------------------------------------ cache
\* json.dumps(user.model_dump()): the snapshot's fields in the order of the
\* model, as one value of the store.
Dumps(user) ==
    <<user.id, user.username, user.email, user.role, user.confirmed,
      user.avatar>>

\* What UserModel(**json.loads(user_json)) raises for a value that is not a
\* snapshot (json.JSONDecodeError, pydantic.ValidationError).
DecodeError == [error |-> "ValidationError"]

\* UserModel(**json.loads(user_json)): the snapshot of a stored value.
Loads(user_json) ==
    IF Len(user_json) # 6 THEN DecodeError
    ELSE [id |-> user_json[1], username |-> user_json[2],
          email |-> user_json[3], role |-> user_json[4],
          confirmed |-> user_json[5], avatar |-> user_json[6]]

\* Mutant: the lookup never finds a value.
CacheGetUserNever(token) == None

\* CacheService.get_user: redis GET of the key (expired keys are gone), None
\* when there is no value, else the decoded value; get_user catches nothing.
CacheGetUser(token) ==
    IF \E e \in cache : e.key = token
    THEN Loads((CHOOSE e \in cache : e.key = token).value)
    ELSE None

\* Mutant: the expiry is computed afresh from the time of the write.
CacheExpiryFromNow(token, c) == Seconds(c + AccessDelta(0))

\* The expiry get_current_user hands to set_user: the token's exp claim.
CacheExpiry(token, c) == token.exp

\* Mutant: the value is stored without the expiry it was given.
CacheSetUserKeepsForAWeek(token, user, evict, c) ==
    {e \in cache : e.key # token}
        \cup {[key |-> token, value |-> Dumps(user),
               exat |-> evict + EmailTokenSeconds]}

\* CacheService.set_user: redis SET key json EXAT evict replaces the key's
\* entry; an expiry that is not in the future leaves no key.
CacheSetUser(token, user, evict, c) ==
    LET rest == {e \in cache : e.key # token}
    IN  IF evict * SubSecond <= c THEN rest
        ELSE rest \cup {[key |-> token, value |-> Dumps(user), exat |-> evict]}

\* Redis drops a key once the time reaches its EXAT.
Expire(entries, c) == {e \in entries : c < e.exat * SubSecond}

\* --------------------------------------------------------------- responses
Response(op, req, status, detail, body) ==
    [op |-> op, req |-> req, status |-> status, detail |-> detail, body |-> body]

\* Mutant: the reset mail's token is minted for the username.
MailResetForUsername(template, user, c, lag) ==
    [template |-> template, recipient |-> user.email,
     token |-> IF template = "reset_password_email.html"
               THEN create_email_token(user.username, c, lag)
               ELSE create_email_token(user.email, c, lag)]

\* send_confirmation_email / send_reset_password: both mint
\* create_email_token({"sub": email}) and differ in the template only.
Mail(template, user, c, lag) ==
    [template |-> template, recipient |-> user.email,
     token |-> create_email_token(user.email, c, lag)]

\* The mails a call at time c can enqueue.
Mails(template, user, c) ==
    {Mail(template, user, c, lag) : lag \in Lags(c)}

\* ------------------------------------------------------------------- Init
Init ==
    /\ users = {}
    /\ cache = {}
    /\ mails = {}
    /\ contacts = {}
    /\ issued = {}
    /\ clock = 0
    /\ task = [p \in Tasks |-> Idle]
    /\ resp = NoResp

\* A later state of the same program: alice has registered at time 0 and has
\* redeemed her confirmation mail.
InitSession ==
    LET alice == [id |-> 1, username |-> "alice", email |-> "alice@x",
                  hashed_password |-> get_password_hash("p1"),
                  confirmed |-> TRUE, role |-> "user", avatar |-> "None"]
    IN  /\ users = {alice}
        /\ cache = {}
        /\ mails = {Mail("verify_email.html", alice, 0, 0)}
        /\ contacts = {}
        /\ issued = {}
        /\ clock = 0
        /\ task = [p \in Tasks |-> Idle]
        /\ resp = NoResp

\* The users table as the repository's test fixture leaves it
\* (predefined_user: hashed_password="hash", confirmed=True).
InitFixture ==
    /\ users = {[id |-> 1, username |-> "alice", email |-> "alice@x",
                 hashed_password |-> [scheme |-> "unknown", of |-> "hash"],
                 confirmed |-> TRUE, role |-> "user", avatar |-> "None"]}
    /\ cache = {}
    /\ mails = {}
    /\ contacts = {}
    /\ issued = {}
    /\ clock = 0
    /\ task = [p \in Tasks |-> Idle]
    /\ resp = NoResp

\* ------------------------------------------------------------------ clock
Tick(d) ==
    /\ TickCount(clock) < MaxTicks
    /\ clock' = clock + d
    /\ cache' = Expire(cache, clock + d)
    /\ resp' = NoResp
    /\ UNCHANGED <<users, mails, issued, task, contacts>>

\* ------------------------------------------------- get_current_user
credentials_exception(op, req) ==
    Response(op, req, 401, "Unable to verify credentials", None)

\* What a get_current_user response is about: the bearer token, and the
\* time.time() its iat/exp check read.
Bearer(token, now) == [token |-> token, now |-> now]

\* Mutant: only iat is compared with the time.
TokenTimeInvalidIatOnly(token, now) == token.iat * SubSecond > now

\* if iat > now or now > exp: 401 "Token is expired"
TokenTimeInvalid(token, now) ==
    token.iat * SubSecond > now \/ now > token.exp * SubSecond

\* Lines 88-105: decode, then the iat/exp check against time.time(); the
\* handler first suspends at cache.get_user.
ResolveStart(p, token) ==
    /\ task[p] = Idle
    /\ IF JwtDecodeFails(token, clock)
       THEN /\ resp' = credentials_exception("get_current_user",
                                              Bearer(token, clock))
            /\ UNCHANGED task
       ELSE IF TokenTimeInvalid(token, clock)
       THEN /\ resp' = Response("get_current_user", Bearer(token, clock), 401,
                                "Token is expired", None)
            /\ UNCHANGED task
       ELSE /\ task' = [task EXCEPT ![p] =
                           [pc |-> "cache_get", token |-> token, now |-> clock]]
            /\ resp' = NoResp
    /\ UNCHANGED <<users, cache, mails, issued, clock, contacts>>

\* Lines 108-113: the cache read returns; a hit is returned as it is, and
\* what get_user raises on a value it cannot decode is not caught. Every
\* token the secret has signed carries a sub claim (login_user and
\* create_email_token both set it), so the "sub is None" exit is not taken.
ResolveCacheGet(p) ==
    /\ task[p].pc = "cache_get"
    /\ LET token == task[p].token
           user == CacheGetUser(token)
       IN  IF user = DecodeError
           THEN /\ resp' = Response("get_current_user",
                                    Bearer(token, task[p].now), 500,
                                    "ValidationError", None)
                /\ task' = [task EXCEPT ![p] = Idle]
           ELSE IF user # None
           THEN /\ resp' = Response("get_current_user",
                                    Bearer(token, task[p].now), 200, "hit", user)
                /\ task' = [task EXCEPT ![p] = Idle]
           ELSE /\ task' = [task EXCEPT ![p].pc = "db_get"]
                /\ resp' = NoResp
    /\ UNCHANGED <<users, cache, mails, issued, clock, contacts>>

\* The Redis connection fails on GET: get_user has no handler, nor has
\* get_current_user, so the request ends as a server error.
ResolveCacheGetFails(p) ==
    /\ task[p].pc = "cache_get"
    /\ resp' = Response("get_current_user",
                        Bearer(task[p].token, task[p].now), 500,
                        "ConnectionError", None)
    /\ task' = [task EXCEPT ![p] = Idle]
    /\ UNCHANGED <<users, cache, mails, issued, clock, contacts>>

\* Lines 115-119: the store read by the token's subject.
ResolveDbGet(p) ==
    /\ task[p].pc = "db_get"
    /\ LET token == task[p].token
           user == TransformUserModel(GetUserByUsername(token.sub))
       IN  IF user = None
           THEN /\ resp' = credentials_exception("get_current_user",
                                                  Bearer(token, task[p].now))
                /\ task' = [task EXCEPT ![p] = Idle]
           ELSE /\ task' = [task EXCEPT ![p] =
                               [pc |-> "cache_set", token |-> token,
                                now |-> task[p].now, user |-> user]]
                /\ resp' = NoResp
    /\ UNCHANGED <<users, cache, mails, issued, clock, contacts>>

\* Lines 121-123: the cache write, then the user is returned.
ResolveCacheSet(p) ==
    /\ task[p].pc = "cache_set"
    /\ LET token == task[p].token
       IN  /\ cache' = CacheSetUser(token, task[p].user,
                                    CacheExpiry(token, clock), clock)
           /\ resp' = Response("get_current_user",
                               Bearer(token, task[p].now), 200, "miss",
                               task[p].user)
    /\ task' = [task EXCEPT ![p] = Idle]
    /\ UNCHANGED <<users, mails, issued, clock, contacts>>

\* The Redis connection fails on SET: unhandled as well.
ResolveCacheSetFails(p) ==
    /\ task[p].pc = "cache_set"
    /\ resp' = Response("get_current_user",
                        Bearer(task[p].token, task[p].now), 500,
                        "ConnectionError", None)
    /\ task' = [task EXCEPT ![p] = Idle]
    /\ UNCHANGED <<users, cache, mails, issued, clock, contacts>>

\* The request is cancelled while get_current_user waits at one of its
\* awaits (lines 108, 117, 121): the handler is abandoned there.
Abort(p) ==
    /\ task[p].pc \in {"cache_get", "db_get", "cache_set"}
    /\ task' = [task EXCEPT ![p] = Idle]
    /\ resp' = NoResp
    /\ UNCHANGED <<users, cache, mails, issued, clock, contacts>>

\* ------------------------------------------------------------ register_user
\* if email_user: 409
EmailTaken(email) == GetUserByEmail(email) # None

\* Mutant: the username lookup finds nothing.
UsernameNeverTaken(username) == FALSE

\* if username_user: 409
UsernameTaken(username) == GetUserByUsername(username) # None

\* What a register_user response is about: the request body, and whether a
\* user with its e-mail or its username existed when the request arrived.
Registration(body, dupAtCall) == [body |-> body, dupAtCall |-> dupAtCall]

\* Lines 75-80: the e-mail lookup.
RegisterStart(p, body) ==
    /\ task[p] = Idle
    /\ IF EmailTaken(body.email)
       THEN /\ resp' = Response("register_user", Registration(body, TRUE), 409,
                                "User with such email already exists", None)
            /\ UNCHANGED task
       ELSE /\ task' = [task EXCEPT ![p] =
                           [pc |-> "reg_username", body |-> body,
                            dupAtCall |-> \E u \in users :
                                             u.username = body.username]]
            /\ resp' = NoResp
    /\ UNCHANGED <<users, cache, mails, issued, clock, contacts>>

\* Lines 82-87: the username lookup.
RegisterUsernameCheck(p) ==
    /\ task[p].pc = "reg_username"
    /\ IF UsernameTaken(task[p].body.username)
       THEN /\ resp' = Response("register_user",
                                Registration(task[p].body, task[p].dupAtCall), 409,
                                "User with such username already exists", None)
            /\ task' = [task EXCEPT ![p] = Idle]
       ELSE /\ task' = [task EXCEPT ![p].pc = "reg_create"]
            /\ resp' = NoResp
    /\ UNCHANGED <<users, cache, mails, issued, clock, contacts>>

\* Lines 89-94: the insert commits, the confirmation mail is enqueued.
\* An IntegrityError of the commit is rolled back by the session manager and
\* re-raised: no handler turns it into a 409.
RegisterCreate(p) ==
    /\ task[p].pc = "reg_create"
    /\ LET body == task[p].body
           user == NewUser(body)
           req == Registration(body, task[p].dupAtCall)
       IN  IF UniqueViolation(user)
           THEN /\ resp' = Response("register_user", req, 500,
                                    "IntegrityError", None)
                /\ UNCHANGED <<users, mails>>
           ELSE /\ Cardinality(mails) < MaxMails
                /\ users' = users \cup {user}
                /\ \E mail \in Mails("verify_email.html", user, clock) :
                       mails' = mails \cup {mail}
                /\ resp' = Response("register_user", req, 201, "Created",
                                    TransformUserModel(user))
    /\ task' = [task EXCEPT ![p] = Idle]
    /\ UNCHANGED <<cache, issued, clock, contacts>>

\* --------------------------------------------------------------- login_user
\* Mutant: the confirmed flag is not looked at.
LoginRejectionNoGate(user, password) ==
    IF user = None THEN "Incorrect user or password"
    ELSE IF HashMalformed(user.hashed_password) THEN "UnknownHashError"
    ELSE IF ~verify_password(password, user.hashed_password)
    THEN "Incorrect user or password"
    ELSE ""

\* Lines 128-138: the two rejections of login_user, "" when it goes on;
\* verify_password is called for a user that exists, and what it raises is
\* not caught.
LoginRejection(user, password) ==
    IF user = None THEN "Incorrect user or password"
    ELSE IF HashMalformed(user.hashed_password) THEN "UnknownHashError"
    ELSE IF ~verify_password(password, user.hashed_password)
    THEN "Incorrect user or password"
    ELSE IF ~user.confirmed THEN "Email is not confirmed"
    ELSE ""

\* Lines 126-139. The access token is minted without an explicit ttl.
Login(username, password) ==
    LET req == [username |-> username, password |-> password]
        user == GetUserByUsername(username)
        rejection == LoginRejection(user, password)
    IN  /\ IF rejection = "UnknownHashError"
           THEN /\ resp' = Response("login_user", req, 500,
                                    "UnknownHashError", None)
                /\ UNCHANGED issued
           ELSE IF rejection = "Incorrect user or password"
           THEN /\ resp' = Response("login_user", req, 401,
                                    "Incorrect user or password", None)
                /\ UNCHANGED issued
           ELSE IF rejection = "Email is not confirmed"
           THEN /\ resp' = Response("login_user", req, 401,
                                    "Email is not confirmed", None)
                /\ UNCHANGED issued
           ELSE LET token == create_access_token(user.username, 0, clock)
                IN  /\ Cardinality(issued \cup {token}) <= MaxTokens
                    /\ issued' = issued \cup {token}
                    /\ resp' = Response("login_user", req, 200, "OK", token)
        /\ UNCHANGED <<users, cache, mails, clock, task, contacts>>

\* ---------------------------------------------------- purpose-token routes
\* Mutant: another claim than sub is read from the payload.
get_email_from_token_other_claim(token) == token.key

\* get_email_from_token: the sub claim of a token that decodes.
get_email_from_token(token) == token.sub

\* Mutant: the update has no WHERE clause.
confirmed_email_all_rows(email) == {[u EXCEPT !.confirmed = TRUE] : u \in users}

\* UserRepository.confirmed_email: the row with the e-mail gets confirmed = True.
confirmed_email_rows(email) ==
    {IF u.email = email THEN [u EXCEPT !.confirmed = TRUE] ELSE u : u \in users}

\* GET /confirmed_email/{token}, lines 169-179.
ConfirmedEmail(token) ==
    /\ IF JwtDecodeFails(token, clock)
       THEN /\ resp' = Response("confirmed_email", token, 422,
                                "Incorrect verification token", None)
            /\ UNCHANGED users
       ELSE LET email == get_email_from_token(token)
                user == GetUserByEmail(email)
            IN  IF user = None
                THEN /\ resp' = Response("confirmed_email", token, 400,
                                         "Verification error", None)
                     /\ UNCHANGED users
                ELSE IF user.confirmed
                THEN /\ resp' = Response("confirmed_email", token, 201,
                                         "already confirmed", None)
                     /\ UNCHANGED users
                ELSE /\ users' = confirmed_email_rows(email)
                     /\ resp' = Response("confirmed_email", token, 201,
                                         "has been confirmed", None)
    /\ UNCHANGED <<cache, mails, issued, clock, task, contacts>>

\* Mutant: a confirmed user is sent a confirmation mail as well.
ConfirmEmailUngated(email) ==
    LET user == GetUserByEmail(email)
    IN  /\ IF user = None
           THEN /\ resp' = Response("confirm_email", email, 400,
                                    "Unknown email", None)
                /\ UNCHANGED mails
           ELSE \E mail \in Mails("verify_email.html", user, clock) :
                    /\ Cardinality(mails \cup {mail}) <= MaxMails
                    /\ mails' = mails \cup {mail}
                    /\ resp' = Response("confirm_email", email, 201,
                                        "Please check your email", None)
        /\ UNCHANGED <<users, cache, issued, clock, task, contacts>>

\* POST /confirm_email, lines 222-238: a new confirmation mail on request.
ConfirmEmail(email) ==
    LET user == GetUserByEmail(email)
    IN  /\ IF user = None
           THEN /\ resp' = Response("confirm_email", email, 400,
                                    "Unknown email", None)
                /\ UNCHANGED mails
           ELSE IF user.confirmed
           THEN /\ resp' = Response("confirm_email", email, 201,
                                    "already confirmed", None)
                /\ UNCHANGED mails
           ELSE \E mail \in Mails("verify_email.html", user, clock) :
                    /\ Cardinality(mails \cup {mail}) <= MaxMails
                    /\ mails' = mails \cup {mail}
                    /\ resp' = Response("confirm_email", email, 201,
                                        "Please check your email", None)
        /\ UNCHANGED <<users, cache, issued, clock, task, contacts>>

\* Mutant: an e-mail of no user is answered as unknown.
ResetPasswordTelling(email) ==
    LET user == GetUserByEmail(email)
    IN  /\ IF user # None
           THEN \E mail \in Mails("reset_password_email.html", user, clock) :
                    /\ Cardinality(mails \cup {mail}) <= MaxMails
                    /\ mails' = mails \cup {mail}
                    /\ resp' = Response("reset_password", email, 201,
                                        "Please check your email for reset password",
                                        None)
           ELSE /\ resp' = Response("reset_password", email, 400,
                                    "Unknown email", None)
                /\ UNCHANGED mails
        /\ UNCHANGED <<users, cache, issued, clock, task, contacts>>

\* POST /reset_password, lines 271-277.
ResetPassword(email) ==
    LET user == GetUserByEmail(email)
    IN  /\ IF user # None
           THEN \E mail \in Mails("reset_password_email.html", user, clock) :
                    /\ Cardinality(mails \cup {mail}) <= MaxMails
                    /\ mails' = mails \cup {mail}
           ELSE UNCHANGED mails
        /\ resp' = Response("reset_password", email, 201,
                            "Please check your email for reset password", None)
        /\ UNCHANGED <<users, cache, issued, clock, task, contacts>>

\* UserService.update_password: the user's hashed_password is replaced by the
\* hash of the new password.
update_password(username, password) ==
    {IF u.username = username
     THEN [u EXCEPT !.hashed_password = get_password_hash(password)]
     ELSE u : u \in users}

\* Mutant: update_password is called with the user's e-mail for a username.
PerformResetedPasswordByEmail(token, password) ==
    LET req == [token |-> token, password |-> password]
    IN  /\ IF JwtDecodeFails(token, clock)
           THEN /\ resp' = Response("perform_reseted_password", req, 422,
                                    "Incorrect verification token", None)
                /\ UNCHANGED users
           ELSE LET user == GetUserByEmail(get_email_from_token(token))
                IN  IF user = None
                    THEN /\ resp' = Response("perform_reseted_password", req,
                                             400, "User is not found", None)
                         /\ UNCHANGED users
                    ELSE /\ users' = update_password(user.email, password)
                         /\ resp' = Response("perform_reseted_password", req,
                                             201, "updated", None)
        /\ UNCHANGED <<cache, mails, issued, clock, task, contacts>>

\* POST /reseted_password, lines 341-351.
PerformResetedPassword(token, password) ==
    LET req == [token |-> token, password |-> password]
    IN  /\ IF JwtDecodeFails(token, clock)
           THEN /\ resp' = Response("perform_reseted_password", req, 422,
                                    "Incorrect verification token", None)
                /\ UNCHANGED users
           ELSE LET user == GetUserByEmail(get_email_from_token(token))
                IN  IF user = None
                    THEN /\ resp' = Response("perform_reseted_password", req,
                                             400, "User is not found", None)
                         /\ UNCHANGED users
                    ELSE /\ users' = update_password(user.username, password)
                         /\ resp' = Response("perform_reseted_password", req,
                                             201, "updated", None)
        /\ UNCHANGED <<cache, mails, issued, clock, task, contacts>>

\* ------------------------------------------------------------- avatar
\* The URL upload_file returns for a user's upload.
Urls == {"v1"}

\* Mutant: the row is written back as one that awaits confirmation.
update_avatar_rows_unconfirmed(username, url) ==
    {IF u.username = username
     THEN [u EXCEPT !.avatar = url, !.confirmed = FALSE]
     ELSE u : u \in users}

\* Mutant: the rows that are not the user's are lost.
update_avatar_rows_only(username, url) ==
    {[u EXCEPT !.avatar = url] : u \in {v \in users : v.username = username}}

\* UserService.update_avatar_url: found.avatar = url, commit.
update_avatar_rows(username, url) ==
    {IF u.username = username THEN [u EXCEPT !.avatar = url] ELSE u :
        u \in users}

\* PATCH /users/avatar, lines 99-108, for the authenticated user (the
\* dependency that authenticates the request hands over its username).
UpdateAvatarUser(username, url) ==
    /\ GetUserByUsername(username) # None
    /\ users' = update_avatar_rows(username, url)
    /\ resp' = Response("update_avatar_user",
                        [username |-> username, url |-> url], 200, "",
                        TransformUserModel(
                            [GetUserByUsername(username) EXCEPT !.avatar = url]))
    /\ UNCHANGED <<cache, mails, issued, clock, task, contacts>>

\* ---------------------------------------------------------- the token codec
\* The explicit expires_delta values a caller passes, in clock units: below,
\* at and above a whole second.
Ttls == 1..(2 * SubSecond)

\* create_access_token(data, expires_delta), and jwt.decode of its result
\* with the configured secret right away.
MintDecode(sub, ttl) ==
    LET token == create_access_token(sub, ttl, clock)
    IN  /\ resp' = Response("create_access_token",
                            [claims |-> [sub |-> sub], ttl |-> ttl,
                             now |-> clock],
                            IF JwtDecodeFails(token, clock) THEN 401 ELSE 200,
                            "", JwtClaims(token))
        /\ UNCHANGED <<users, cache, mails, issued, clock, task, contacts>>

\* send_confirmation_email(email, username, host): the token is minted for
\* the e-mail it is given and handed to the mail sender.
SendConfirmationEmail(email) ==
    \E mail \in Mails("verify_email.html", [email |-> email], clock) :
        /\ Cardinality(mails \cup {mail}) <= MaxMails
        /\ mails' = mails \cup {mail}
        /\ resp' = NoResp
        /\ UNCHANGED <<users, cache, issued, clock, task, contacts>>

\* get_email_from_token(token) on its own: the e-mail, or the 422 it raises.
GetEmailFromToken(token) ==
    /\ resp' = IF JwtDecodeFails(token, clock)
               THEN Response("get_email_from_token", Bearer(token, clock), 422,
                             "Incorrect verification token", None)
               ELSE Response("get_email_from_token", Bearer(token, clock), 200,
                             "", get_email_from_token(token))
    /\ UNCHANGED <<users, cache, mails, issued, clock, task, contacts>>

\* ------------------------------------------------ the cache service alone
\* The keys, snapshots and absolute expiries (epoch seconds) a caller passes.
CacheKeys == {JwtEncode(sub, 0, EmailTokenSeconds) : sub \in Usernames}
Snapshots ==
    {[id |-> 1, username |-> u, email |-> "alice@x", role |-> "user",
      confirmed |-> c, avatar |-> "None"] : u \in Usernames, c \in BOOLEAN}
Evicts == 0..((MaxTicks \div SubSecond) + 1)

\* What a get_user response is about: the last call the caller made for the
\* key ("set" or "remove"), with the user and expiry of its set_user.
CacheCall(t, after, now) ==
    [token |-> t.token, user |-> t.user, evict |-> t.evict, after |-> after,
     now |-> now]

\* await cache.set_user(token, user, evict), lines 58-61.
SetUser(p, token, user, evict) ==
    /\ task[p] = Idle
    /\ cache' = CacheSetUser(token, user, evict, clock)
    /\ task' = [task EXCEPT ![p] = [pc |-> "set", token |-> token,
                                    user |-> user, evict |-> evict]]
    /\ resp' = NoResp
    /\ UNCHANGED <<users, mails, issued, clock, contacts>>

\* await cache.remove_user(token), line 71: redis_connection is a
\* redis.asyncio client, delete(token) returns a coroutine, and the coroutine
\* is dropped without await: no DEL reaches the store.
RemoveUser(p) ==
    /\ task[p].pc = "set"
    /\ task' = [task EXCEPT ![p].pc = "remove"]
    /\ resp' = NoResp
    /\ UNCHANGED <<users, cache, mails, issued, clock, contacts>>

\* await cache.get_user(token), lines 38-45, by the caller of the set_user
\* (and remove_user) before.
GetUser(p) ==
    /\ task[p].pc \in {"set", "remove"}
    /\ LET user == CacheGetUser(task[p].token)
       IN  resp' = Response("get_user", CacheCall(task[p], task[p].pc, clock),
                            IF user = DecodeError THEN 500 ELSE 200, "", user)
    /\ task' = [task EXCEPT ![p] = Idle]
    /\ UNCHANGED <<users, cache, mails, issued, clock, contacts>>

\* ------------------------------------------------------------ the adversary
\* Someone with write access to the Redis store plants an entry under a token.
ForgedSnapshot ==
    [id |-> 0, username |-> "alice", email |-> "alice@x", role |-> "admin",
     confirmed |-> TRUE, avatar |-> "None"]

\* A value that is not the JSON of a snapshot.
Corrupt == <<0>>

SeedCache(token, value) ==
    /\ CacheGetUser(token) = None
    /\ cache' = cache \cup {[key |-> token, value |-> value,
                             exat |-> Seconds(clock) + EmailTokenSeconds]}
    /\ resp' = NoResp
    /\ UNCHANGED <<users, mails, issued, clock, task, contacts>>

\* ---------------------------------------------------------------- contacts
\* The ids the contacts table hands out.
ContactIds == 1..MaxContacts

\* Contact.date is nullable: date = None in ContactService.create.
NoDate == 0
\* Dates, as day numbers.
Dates == 1..3

\* ContactBase bodies a client sends (phone and notes travel the same way as
\* the names and are left out).
ContactBase ==
    {[first_name |-> "John", last_name |-> "Doe", email |-> "john@x", date |-> 1],
     [first_name |-> "john", last_name |-> "Dow", email |-> "JOHN@X", date |-> 2],
     [first_name |-> "Sarah", last_name |-> "Dow", email |-> "sarah@x", date |-> 3],
     [first_name |-> "Sarah", last_name |-> "Doe", email |-> "sarah@x",
      date |-> NoDate]}

\* str.upper() and SQL upper() on the strings the model uses.
Upper(s) ==
    CASE s \in {"John", "john", "JOHN"} -> "JOHN"
      [] s \in {"Sarah", "sarah", "SARAH"} -> "SARAH"
      [] s \in {"Doe", "doe", "DOE"} -> "DOE"
      [] s \in {"Dow", "dow", "DOW"} -> "DOW"
      [] s \in {"john@x", "John@X", "JOHN@X"} -> "JOHN@X"
      [] s \in {"sarah@x", "Sarah@X", "SARAH@X"} -> "SARAH@X"
      [] OTHER -> s

\* Contact(first_name=..., ..., user_id=current_user.id) with the id the
\* table gave it.
Contact(id, body, user_id) ==
    [id |-> id, first_name |-> body.first_name, last_name |-> body.last_name,
     email |-> body.email, date |-> body.date, user_id |-> user_id]

\* The primary key the table assigns on INSERT: one no stored row has.
NewContactIds == ContactIds \ {c.id : c \in contacts}

\* Mutant: the row is looked up by its id alone.
get_by_id_of_any_owner(id, user_id) ==
    IF \E c \in contacts : c.id = id
    THEN CHOOSE c \in contacts : c.id = id
    ELSE None

\* select(Contact).filter_by(id=id, user_id=user_id), scalar_one_or_none()
get_by_id(id, user_id) ==
    IF \E c \in contacts : c.id = id /\ c.user_id = user_id
    THEN CHOOSE c \in contacts : c.id = id /\ c.user_id = user_id
    ELSE None

\* session.add(contact); commit
create(contact) == contacts \cup {contact}

\* Mutant: every contact of the owner is deleted.
remove_all_of_owner(contact) ==
    {c \in contacts : c.user_id # contact.user_id}

\* session.delete(contact); commit
remove(contact) == contacts \ {contact}

\* Mutant: the owner is among the fields copied from the body.
update_with_owner(persisted, contact) ==
    (contacts \ {persisted})
        \cup {[persisted EXCEPT !.id = contact.id,
                                !.first_name = contact.first_name,
                                !.last_name = contact.last_name,
                                !.email = contact.email,
                                !.date = contact.date,
                                !.user_id = contact.id]}

\* ContactService.update, lines 130-134: every field of the ContractModel is
\* set on the persisted row (user_id is not one of them), with the date
\* parsed; the repository then commits.
update(persisted, contact) ==
    (contacts \ {persisted})
        \cup {[persisted EXCEPT !.id = contact.id,
                                !.first_name = contact.first_name,
                                !.last_name = contact.last_name,
                                !.email = contact.email,
                                !.date = contact.date]}

\* __transform_contact_to_contract_model: the row without its user_id.
transform_contact_to_contract_model(contact) ==
    [id |-> contact.id, first_name |-> contact.first_name,
     last_name |-> contact.last_name, email |-> contact.email,
     date |-> contact.date]

\* What the service answers after its write: contact.date.isoformat() of the
\* transformation raises AttributeError on a row without a date.
Transformed(op, req, status, contact) ==
    IF contact.date = NoDate
    THEN Response(op, req, 500, "AttributeError", None)
    ELSE Response(op, req, status, "",
                  transform_contact_to_contract_model(contact))

\* ContactService.create on behalf of current_user.
ContactCreate(user, body) ==
    /\ Cardinality(contacts) < MaxContacts
    /\ \E id \in NewContactIds :
           LET entity == Contact(id, body, user.id)
           IN  /\ contacts' = create(entity)
               /\ resp' = Transformed("create_contact",
                                      [user_id |-> user.id, body |-> body],
                                      201, entity)
    /\ UNCHANGED <<users, cache, mails, issued, clock, task>>

\* The ContractModel bodies of an update: a ContactBase with an id.
ContractModel ==
    {[id |-> id, first_name |-> b.first_name, last_name |-> b.last_name,
      email |-> b.email, date |-> b.date] : id \in ContactIds, b \in ContactBase}

\* ContactService.update on behalf of current_user (the route declares 400
\* and 404 for its two errors).
ContactUpdate(user, id, contact) ==
    /\ LET req == [user_id |-> user.id, id |-> id, contact |-> contact]
           persisted == get_by_id(id, user.id)
       IN  IF id # contact.id
           THEN /\ resp' = Response("update_contact", req, 400, "ValueError",
                                    None)
                /\ UNCHANGED contacts
           ELSE IF persisted = None
           THEN /\ resp' = Response("update_contact", req, 404,
                                    "ContactNotFoundError", None)
                /\ UNCHANGED contacts
           ELSE /\ contacts' = update(persisted, contact)
                /\ resp' = Transformed("update_contact", req, 200,
                                       Contact(id, contact, user.id))
    /\ UNCHANGED <<users, cache, mails, issued, clock, task>>

\* ContactService.remove on behalf of current_user.
ContactRemove(user, id) ==
    /\ LET req == [user_id |-> user.id, id |-> id]
           persisted == get_by_id(id, user.id)
       IN  IF persisted = None
           THEN /\ resp' = Response("remove_contact", req, 404,
                                    "ContactNotFoundError", None)
                /\ UNCHANGED contacts
           ELSE /\ contacts' = remove(persisted)
                /\ resp' = Transformed("remove_contact", req, 200, persisted)
    /\ UNCHANGED <<users, cache, mails, issued, clock, task>>

\* ContactRepository.get_by_id called by itself.
GetById(id, user_id) ==
    /\ resp' = Response("get_by_id", [id |-> id, user_id |-> user_id], 200, "",
                        get_by_id(id, user_id))
    /\ UNCHANGED <<users, cache, mails, contacts, issued, clock, task>>

\* Mutant: the names and the e-mail are compared as they are written.
WhereCaseSensitive(query) ==
    {c \in contacts :
        /\ query.first_name # "" => c.first_name = query.first_name
        /\ query.last_name # "" => c.last_name = query.last_name
        /\ query.email # "" => c.email = query.email
        /\ query.date_from # NoDate => (c.date # NoDate /\ c.date >= query.date_from)
        /\ query.date_to # NoDate => (c.date # NoDate /\ c.date <= query.date_to)
        /\ c.user_id = query.user_id}

\* Lines 55-74: the WHERE clauses. A filter is added when its value is
\* truthy (neither None nor empty, written "" and NoDate here); a comparison
\* with a NULL date is not true; the user_id clause is always added.
Where(query) ==
    {c \in contacts :
        /\ query.first_name # "" =>
               Upper(c.first_name) = Upper(query.first_name)
        /\ query.last_name # "" => Upper(c.last_name) = Upper(query.last_name)
        /\ query.email # "" => Upper(c.email) = Upper(query.email)
        /\ query.date_from # NoDate => (c.date # NoDate /\ c.date >= query.date_from)
        /\ query.date_to # NoDate => (c.date # NoDate /\ c.date <= query.date_to)
        /\ c.user_id = query.user_id}

\* The statement has no ORDER BY: the rows come in an order the database
\* chooses.
Orders(rows) ==
    {order \in [1..Cardinality(rows) -> rows] :
        \A i, j \in 1..Cardinality(rows) : i # j => order[i] # order[j]}

\* Lines 76-79: OFFSET when skip is truthy, LIMIT when limit is truthy.
Offset(rows, skip) ==
    IF skip # 0 THEN SubSeq(rows, skip + 1, Len(rows)) ELSE rows

Limit(rows, limit) ==
    IF limit # 0 /\ limit < Len(rows) THEN SubSeq(rows, 1, limit) ELSE rows

\* get_list_by_query with the rows in the order the database produced.
get_list_by_query(query, order) ==
    Limit(Offset(order, query.skip), query.limit)

\* ContactRepository.get_list_by_query called by itself.
GetListByQuery(query) ==
    /\ \E order \in Orders(Where(query)) :
           resp' = Response("get_list_by_query", query, 200, "",
                            get_list_by_query(query, order))
    /\ UNCHANGED <<users, cache, mails, contacts, issued, clock, task>>

\* ContactsQuery values: every filter absent or given, in another case than
\* the stored one; skip and limit from 0.
ContactsQuery ==
    [first_name : {"", "JOHN"}, last_name : {"", "dow"},
     email : {"", "John@X"}, date_from : {NoDate, 2}, date_to : {NoDate, 2},
     user_id : 1..2, skip : 0..1, limit : 0..1]

\* ContactsQuery(user_id=current_user.id, skip=0, limit=10) with no filter,
\* as GET /contacts/ builds it by default.
ContactsOf(user_id) ==
    [first_name |-> "", last_name |-> "", email |-> "", date_from |-> NoDate,
     date_to |-> NoDate, user_id |-> user_id, skip |-> 0, limit |-> 10]

\* alice and bob, registered and confirmed.
TwoUsers ==
    {[id |-> 1, username |-> "alice", email |-> "alice@x",
      hashed_password |-> get_password_hash("p1"), confirmed |-> TRUE,
      role |-> "user", avatar |-> "None"],
     [id |-> 2, username |-> "bob@x", email |-> "bob@x",
      hashed_password |-> get_password_hash("p2"), confirmed |-> TRUE,
      role |-> "user", avatar |-> "None"]}

InitContacts ==
    /\ users = TwoUsers
    /\ cache = {}
    /\ mails = {}
    /\ contacts = {}
    /\ issued = {}
    /\ clock = 0
    /\ task = [p \in Tasks |-> Idle]
    /\ resp = NoResp

\* Contacts as a sequence of creations can have left them: two owners, equal
\* fields under different ids, a row without a date.
StoredContacts ==
    {Contact(1, [first_name |-> "John", last_name |-> "Doe",
                 email |-> "john@x", date |-> 1], 1),
     Contact(2, [first_name |-> "John", last_name |-> "Doe",
                 email |-> "john@x", date |-> 1], 2),
     Contact(3, [first_name |-> "Sarah", last_name |-> "Dow",
                 email |-> "sarah@x", date |-> 3], 2),
     Contact(4, [first_name |-> "john", last_name |-> "Dow",
                 email |-> "JOHN@X", date |-> 2], 2),
     Contact(5, [first_name |-> "Sarah", last_name |-> "Doe",
                 email |-> "sarah@x", date |-> NoDate], 1)}

InitQuery ==
    /\ users = TwoUsers
    /\ cache = {}
    /\ mails = {}
    /\ contacts \in SUBSET StoredContacts
    /\ issued = {}
    /\ clock = 0
    /\ task = [p \in Tasks |-> Idle]
    /\ resp = NoResp

\* ------------------------------------------------------------------- Next
UserCreate == [username : Usernames, email : Emails, password : Passwords]

\* A get_current_user request in slot p, step by step.
Resolve(p) ==
    \/ \E token \in Presentable : ResolveStart(p, token)
    \/ ResolveCacheGet(p)
    \/ ResolveCacheGetFails(p)
    \/ ResolveDbGet(p)
    \/ ResolveCacheSet(p)
    \/ ResolveCacheSetFails(p)

\* A register_user request in slot p, step by step.
Register(p) ==
    \/ \E body \in UserCreate : RegisterStart(p, body)
    \/ RegisterUsernameCheck(p)
    \/ RegisterCreate(p)

\* Account requests one after the other (slot "t1"), from the empty store.
Next ==
    \/ Register("t1")
    \/ \E u \in Usernames, pw \in Passwords : Login(u, pw)
    \/ \E token \in Presentable : ConfirmedEmail(token)
    \/ Resolve("t1")

Spec == Init /\ [][Next]_vars

\* Registration, confirmation, login and password reset, one request after
\* the other, from the empty store.
NextFlow ==
    \/ Register("t1")
    \/ \E u \in Usernames, pw \in Passwords : Login(u, pw)
    \/ \E token \in Presentable : ConfirmedEmail(token)
    \/ \E email \in Emails : ConfirmEmail(email)
    \/ \E email \in Emails : ResetPassword(email)
    \/ \E token \in Presentable, pw \in Passwords :
           PerformResetedPassword(token, pw)

SpecFlow == Init /\ [][NextFlow]_vars

\* Every operation on the users table together with logins and
\* resolutions.
NextAll ==
    \/ Register("t1")
    \/ \E u \in Usernames, pw \in Passwords : Login(u, pw)
    \/ \E token \in Presentable : ConfirmedEmail(token)
    \/ \E token \in Presentable, pw \in Passwords :
           PerformResetedPassword(token, pw)
    \/ \E u \in Usernames, url \in Urls : UpdateAvatarUser(u, url)
    \/ Resolve("t1")

SpecAll == Init /\ [][NextAll]_vars

\* Registration and the two purpose-token flows as the clock moves by its
\* unit and by the life of a purpose token.
NextPurpose ==
    \/ Tick(1)
    \/ Tick(WeekStep)
    \/ Register("t1")
    \/ \E email \in Emails : ConfirmEmail(email)
    \/ \E email \in Emails : ResetPassword(email)
    \/ \E token \in Presentable : ConfirmedEmail(token)
    \/ \E token \in Presentable, pw \in Passwords :
           PerformResetedPassword(token, pw)

SpecPurpose == Init /\ [][NextPurpose]_vars

\* The same requests against the fixture's users table.
SpecFixture == InitFixture /\ [][Next]_vars

\* Concurrent register_user requests, one per slot.
NextRace == \E p \in Tasks : Register(p)

SpecRace == Init /\ [][NextRace]_vars

\* Logins and resolutions of a confirmed user as the clock advances.
NextSession ==
    \/ \E d \in ClockSteps : Tick(d)
    \/ \E u \in Usernames, pw \in Passwords : Login(u, pw)
    \/ Resolve("t1")

SpecSession == InitSession /\ [][NextSession]_vars

\* The contacts service and repository, on behalf of either user.
NextContacts ==
    \/ \E user \in users, body \in ContactBase : ContactCreate(user, body)
    \/ \E user \in users, id \in ContactIds, contact \in ContractModel :
           ContactUpdate(user, id, contact)
    \/ \E user \in users, id \in ContactIds : ContactRemove(user, id)
    \/ \E id \in ContactIds, user \in users : GetById(id, user.id)
    \/ \E user \in users : GetListByQuery(ContactsOf(user.id))

SpecContacts == InitContacts /\ [][NextContacts]_vars

\* The search alone, over stored tables.
NextQuery == \E query \in ContactsQuery : GetListByQuery(query)

SpecQuery == InitQuery /\ [][NextQuery]_vars

\* Every operation that writes the users table or sends a mail, with the
\* clock frozen.
NextAccount ==
    \/ NextFlow
    \/ \E u \in Usernames, url \in Urls : UpdateAvatarUser(u, url)

SpecAccount == Init /\ [][NextAccount]_vars

\* Concurrent resolutions, one per slot, any of which may be cancelled.
NextConc ==
    \/ \E d \in ClockSteps : Tick(d)
    \/ \E u \in Usernames, pw \in Passwords : Login(u, pw)
    \/ \E p \in Tasks : Resolve(p)
    \/ \E p \in Tasks : Abort(p)

SpecConc == InitSession /\ [][NextConc]_vars

\* The same with an adversary writing to the cache store.
NextAdv ==
    \/ NextSession
    \/ \E token \in Presentable : SeedCache(token, Dumps(ForgedSnapshot))

SpecAdv == InitSession /\ [][NextAdv]_vars

\* The session with values in the cache store that are not snapshots.
NextCorrupt ==
    \/ NextSession
    \/ \E token \in Presentable : SeedCache(token, Corrupt)

SpecCorrupt == InitSession /\ [][NextCorrupt]_vars

\* The token functions on their own, called with any claims, any explicit
\* ttl and any e-mail, as the clock moves by its unit or by the life of a
\* purpose token.
NextCodec ==
    \/ Tick(1)
    \/ Tick(WeekStep)
    \/ \E sub \in Usernames, ttl \in Ttls : MintDecode(sub, ttl)
    \/ \E email \in Emails : SendConfirmationEmail(email)
    \/ \E token \in Presentable : GetEmailFromToken(token)

SpecCodec == Init /\ [][NextCodec]_vars

\* The cache service on its own: a caller sets, maybe removes, and gets a
\* key, one key after the other, as the clock moves.
NextCache ==
    \/ Tick(1)
    \/ \E token \in CacheKeys, user \in Snapshots, evict \in Evicts :
           SetUser("t1", token, user, evict)
    \/ RemoveUser("t1")
    \/ GetUser("t1")

SpecCache == Init /\ [][NextCache]_vars

\* ================================================================== claims
SECRET == "JWT_SECRET"
ResolvePcs == {"cache_get", "db_get", "cache_set"}
IsResolve == resp.op = "get_current_user"
PurposeTokens == {m.token : m \in mails}
\* The token of a get_current_user response passed iat <= now <= exp.
CheckedInTime(r) ==
    /\ r.req.token.iat * SubSecond <= r.req.now
    /\ r.req.now <= r.req.token.exp * SubSecond

\* C1: get_current_user returns a user only for a token that carries the
\* configured secret's signature and whose iat <= now <= exp check passed,
\* whatever the cache holds under that token.
C1_BadTokenNeverResolves ==
    (IsResolve /\ resp.status = 200) =>
        (resp.req.token.key = SECRET /\ CheckedInTime(resp))

\* C1 witness: a forged token is refused while the cache holds an entry
\* planted under it.
C1_Witness ==
    /\ IsResolve /\ resp.status = 401
    /\ resp.req.token.key # SECRET
    /\ CacheGetUser(resp.req.token) # None

\* C2: a resolution that has issued, or is about to issue, a cache or store
\* read has decoded its token and passed iat <= now <= exp before.
C2_ChecksPrecedeReads ==
    \A p \in Tasks :
        task[p].pc \in ResolvePcs =>
            /\ task[p].token.key = SECRET
            /\ task[p].token.iat * SubSecond <= task[p].now
            /\ task[p].now <= task[p].token.exp * SubSecond

\* C2 witness: a resolution past its cache read, waiting for the store read.
C2_Witness == \E p \in Tasks : task[p].pc = "db_get"

\* C3: every cache entry expires at its token's own exp, so that no token
\* has an entry at a time later than its exp.
C3_CacheNeverOutlivesToken ==
    /\ \A e \in cache : e.exat = e.key.exp
    /\ \A token \in Presentable :
           clock > token.exp * SubSecond => CacheGetUser(token) = None

\* C3 witness: a resolution has just written the entry of its token.
C3_Witness ==
    /\ IsResolve /\ resp.detail = "miss"
    /\ CacheGetUser(resp.req.token) # None

\* C4: a correctly signed token whose exp is earlier than the time of the
\* evaluation is refused with 401 "Token is expired".
C4_ExpiredTokenIsTokenExpired ==
    (IsResolve /\ resp.req.token.key = SECRET
        /\ resp.req.token.exp * SubSecond < resp.req.now) =>
        (resp.status = 401 /\ resp.detail = "Token is expired")

\* C5: login_user returns a token exactly when the user exists, the password
\* verifies and the user is confirmed; the token's sub is the username; an
\* unconfirmed user with the right password gets 401 "Email is not confirmed".
C5_LoginGate ==
    resp.op = "login_user" =>
        LET user == GetUserByUsername(resp.req.username)
            known == /\ user # None
                     /\ verify_password(resp.req.password, user.hashed_password)
        IN  /\ resp.status = 200 <=> (known /\ user.confirmed)
            /\ resp.status = 200 =>
                   (resp.body.sub = resp.req.username /\ resp.body \in issued)
            /\ (known /\ ~user.confirmed) =>
                   (resp.status = 401 /\ resp.detail = "Email is not confirmed")

\* C5 witness: a login has returned a token.
C5_Witness == resp.op = "login_user" /\ resp.status = 200

\* C6: a resolution of a valid token whose subject is a stored user returns
\* that user, also when the cache store fails.
C6_CacheFailureIsSwallowed ==
    (IsResolve /\ resp.req.token.key = SECRET /\ CheckedInTime(resp)
        /\ GetUserByUsername(resp.req.token.sub) # None) =>
        resp.status = 200

\* C7: a register_user request whose e-mail or username belonged to a user
\* when it arrived ends in 409, and its last step creates no user and
\* enqueues no mail.
C7_DuplicateRegistrationConflicts ==
    [][(resp'.op = "register_user" /\ resp'.req.dupAtCall) =>
           (resp'.status = 409 /\ users' = users /\ mails' = mails)]_vars

\* C7 witness: a request with a taken username and a free e-mail got 409.
C7_Witness ==
    /\ resp.op = "register_user" /\ resp.status = 409
    /\ resp.detail = "User with such username already exists"
    /\ resp.req.dupAtCall

\* C8: no two users share a username or an e-mail, and every register_user
\* request ends in 201 or in 409.
C8_RaceEndsInConflict ==
    /\ \A u, v \in users :
           (u.username = v.username \/ u.email = v.email) => u = v
    /\ resp.op = "register_user" => resp.status \in {201, 409}

\* C9: get_current_user returns no user for a token minted by
\* create_email_token, and the confirmation and reset routes change no user
\* for a token minted by create_access_token.
C9_TokensNeverConfused ==
    /\ (IsResolve /\ resp.status = 200) => resp.req.token \notin PurposeTokens
    /\ (resp.op = "confirmed_email" /\ resp.detail = "has been confirmed") =>
           resp.req \notin issued
    /\ (resp.op = "perform_reseted_password" /\ resp.status = 201) =>
           resp.req.token \notin issued

\* C10: a token minted by login lives JWT_EXPIRATION_SECONDS seconds, and is
\* not resolved later than that after its issue.
C10_AccessTokenLivesTtlSeconds ==
    /\ \A t \in issued : t.exp - t.iat = JWT_EXPIRATION_SECONDS
    /\ (IsResolve /\ resp.status = 200 /\ resp.req.token \in issued) =>
           resp.req.now <= (resp.req.token.iat + JWT_EXPIRATION_SECONDS) * SubSecond

\* C11 as stated: for every claims map and every explicit ttl > 0, decoding
\* create_access_token(claims, ttl) yields the given claims with iat < exp
\* and exp - iat = ttl.
C11_MintDecodeExactTtl ==
    resp.op = "create_access_token" =>
        /\ resp.status = 200
        /\ resp.body.sub = resp.req.claims.sub
        /\ resp.body.iat < resp.body.exp
        /\ (resp.body.exp - resp.body.iat) * SubSecond = resp.req.ttl

\* C11 amended: decoding create_access_token(claims, ttl) yields the given
\* claims with iat the whole second of the mint and exp the whole second of
\* mint + ttl: iat <= exp and exp - iat is within a second of ttl; for a ttl
\* of whole seconds, iat < exp and exp - iat = ttl.
C11_MintDecodeWholeSeconds ==
    resp.op = "create_access_token" =>
        LET lived == (resp.body.exp - resp.body.iat) * SubSecond
            ttl == resp.req.ttl
        IN  /\ resp.status = 200
            /\ resp.body.sub = resp.req.claims.sub
            /\ resp.body.iat = Seconds(resp.req.now)
            /\ resp.body.exp = Seconds(resp.req.now + ttl)
            /\ resp.body.iat <= resp.body.exp
            /\ ttl - SubSecond < lived /\ lived < ttl + SubSecond
            /\ ttl % SubSecond = 0 =>
                   (resp.body.iat < resp.body.exp /\ lived = ttl)

\* C11 witness: a token minted in mid-second with a ttl of a whole second
\* has been decoded.
C11_Witness ==
    /\ resp.op = "create_access_token" /\ resp.status = 200
    /\ resp.req.ttl = SubSecond
    /\ resp.req.now % SubSecond # 0

\* C13: get_email_from_token of a token create_email_token minted for e-mail
\* e returns e as long as the token is unexpired, and for a token signed with
\* another secret it returns no e-mail and fails with 422 "Incorrect
\* verification token".
C13_EmailTokenRoundTrip ==
    resp.op = "get_email_from_token" =>
        LET token == resp.req.token
        IN  /\ \A m \in mails :
                   (m.token = token /\ Seconds(resp.req.now) <= token.exp) =>
                       (resp.status = 200 /\ resp.body = m.recipient)
            /\ token.key # SECRET =>
                   /\ resp.status = 422
                   /\ resp.detail = "Incorrect verification token"
                   /\ resp.body = None

\* C13 witness: a token minted for bob@x is redeemed in the last second of
\* its life, seven days after the mint.
C13_Witness ==
    /\ resp.op = "get_email_from_token" /\ resp.status = 200
    /\ resp.body = "bob@x"
    /\ Seconds(resp.req.now) = resp.req.token.exp

\* C12: get_user(token) after set_user(token, user, exp) returns a user equal
\* to the stored one at any time before exp, and absent once the clock is
\* past exp.
C12_CacheRoundTrip ==
    (resp.op = "get_user" /\ resp.req.after = "set") =>
        /\ resp.req.now < resp.req.evict * SubSecond =>
               resp.body = resp.req.user
        /\ resp.req.now > resp.req.evict * SubSecond => resp.body = None

\* C12 witness: the key set with an expiry ahead is read after that expiry,
\* while a key set later is still stored.
C12_Witness ==
    /\ resp.op = "get_user" /\ resp.req.after = "set"
    /\ resp.req.evict > 0
    /\ resp.req.now > resp.req.evict * SubSecond
    /\ cache # {}

\* C19: once remove_user(token) has completed, the cache holds no entry for
\* the token: the get_user(token) that follows it returns absent.
C19_RemoveUserEvicts ==
    (resp.op = "get_user" /\ resp.req.after = "remove") => resp.body = None

\* C20: get_user returns absent for a stored value that cannot be decoded,
\* so that a resolution of a valid token of a stored user, with the cache
\* store answering, returns the user whatever value the cache holds.
C20_UndecodableIsAbsent ==
    (IsResolve /\ resp.req.token.key = SECRET /\ CheckedInTime(resp)
        /\ GetUserByUsername(resp.req.token.sub) # None
        /\ resp.detail # "ConnectionError") =>
        resp.status = 200

\* C18: login_user never ends in an unhandled error: a password that does
\* not verify, and a stored hash that is malformed, both end in 401
\* "Incorrect user or password".
C18_LoginNeverCrashes ==
    resp.op = "login_user" =>
        LET user == GetUserByUsername(resp.req.username)
        IN  /\ resp.status \in {200, 401}
            /\ (user # None /\ HashMalformed(user.hashed_password)) =>
                   (resp.status = 401
                       /\ resp.detail = "Incorrect user or password")

\* A step is a perform_reseted_password request with a token the configured
\* secret signed, unexpired, whose sub is the e-mail of no stored user.
ResetOfUnknownEmail ==
    /\ resp'.op = "perform_reseted_password"
    /\ resp'.req.token.key = SECRET
    /\ Seconds(clock) <= resp'.req.token.exp
    /\ \A u \in users : u.email # resp'.req.token.sub

\* C14 as stated: perform_reseted_password with a validly signed token whose
\* e-mail matches no stored user fails with Unauthorized (401) "User is not
\* found", and no stored user is changed.
C14_UnknownEmailUnauthorized ==
    [][ResetOfUnknownEmail =>
           (resp'.status = 401 /\ resp'.detail = "User is not found"
               /\ users' = users)]_vars

\* C14 amended: it fails with 400 (Bad Request) "User is not found", and no
\* stored user is changed.
C14_UnknownEmailBadRequest ==
    [][ResetOfUnknownEmail =>
           (resp'.status = 400 /\ resp'.detail = "User is not found"
               /\ users' = users)]_vars

\* C14 witness: a token whose sub is no stored e-mail was refused while users
\* are stored.
C14_Witness ==
    /\ resp.op = "perform_reseted_password" /\ resp.status = 400
    /\ resp.req.token.key = SECRET
    /\ users # {}
    /\ \A u \in users : u.email # resp.req.token.sub

\* C15: perform_reseted_password with an unexpired token of the configured
\* secret whose sub is the e-mail of stored user u, and password p, succeeds
\* and replaces u's hashed_password by a hash that p verifies against and no
\* other password does; no other field of u and no other user changes.
C15_ResetOverwritesPassword ==
    [][(/\ resp'.op = "perform_reseted_password"
        /\ resp'.req.token.key = SECRET
        /\ Seconds(clock) <= resp'.req.token.exp
        /\ \E u \in users : u.email = resp'.req.token.sub) =>
           LET u == CHOOSE u \in users : u.email = resp'.req.token.sub
               p == resp'.req.password
           IN  /\ resp'.status = 201
               /\ \E v \in users' :
                      /\ v = [u EXCEPT !.hashed_password = v.hashed_password]
                      /\ verify_password(p, v.hashed_password)
                      /\ \A q \in Passwords \ {p} :
                             ~verify_password(q, v.hashed_password)
                      /\ users' \ {v} = users \ {u}]_vars

\* C15 witness: a reset with a mailed token has set the password of one of
\* two stored users.
C15_Witness ==
    /\ resp.op = "perform_reseted_password" /\ resp.status = 201
    /\ Cardinality(users) = 2
    /\ \E u \in users :
           /\ u.email = resp.req.token.sub
           /\ u.hashed_password = get_password_hash(resp.req.password)
           /\ \E m \in mails : m.recipient = u.email /\ m.token = resp.req.token

\* C16: confirmed_email with an unexpired token for the e-mail of a stored
\* user sets exactly that user's confirmed flag when it is not set, and
\* reports "already confirmed" without any write when it is set; a set flag
\* stays set, so every redemption after the first is of the second kind.
C16_ConfirmationIdempotent ==
    [][/\ (/\ resp'.op = "confirmed_email"
           /\ resp'.req.key = SECRET
           /\ Seconds(clock) <= resp'.req.exp
           /\ \E u \in users : u.email = resp'.req.sub) =>
              LET u == CHOOSE u \in users : u.email = resp'.req.sub
              IN  IF u.confirmed
                  THEN /\ resp'.detail = "already confirmed"
                       /\ users' = users
                  ELSE /\ resp'.detail = "has been confirmed"
                       /\ users' = (users \ {u})
                                      \cup {[u EXCEPT !.confirmed = TRUE]}
       /\ \A u \in users :
              u.confirmed => \E v \in users' : v.id = u.id /\ v.confirmed]_vars

\* C16 witness: the token of one of two users is redeemed again; the other
\* user is still unconfirmed.
C16_Witness ==
    /\ resp.op = "confirmed_email" /\ resp.detail = "already confirmed"
    /\ \E m \in mails : m.token = resp.req
    /\ \E u \in users : ~u.confirmed

\* C17: a user is stored unconfirmed by register_user, and its confirmed
\* flag is set only by the redemption of a mailed token for its e-mail, so
\* that no login of it succeeds before.
C17_UnconfirmedUntilRedeemed ==
    [][/\ \A v \in users' :
              (v.confirmed /\ ~\E u \in users : u.id = v.id /\ u.confirmed) =>
                  /\ resp'.op = "confirmed_email"
                  /\ resp'.req \in PurposeTokens
                  /\ resp'.req.sub = v.email
       /\ (resp'.op = "login_user" /\ resp'.status = 200) =>
              \E u \in users : u.username = resp'.req.username /\ u.confirmed
      ]_vars

\* C21: no step of register, confirm, login, reset, avatar update or resolve
\* removes a user: the set of stored user ids never shrinks.
C21_UsersNeverDeleted ==
    [][{u.id : u \in users} \subseteq {u.id : u \in users'}]_vars

\* C21 witness: two users are stored, and the avatar of one, the confirmed
\* flag of one and the password of one have been changed.
C21_Witness ==
    /\ Cardinality(users) = 2
    /\ \E u \in users : u.avatar # "None"
    /\ \E u \in users : u.confirmed
    /\ resp.op = "perform_reseted_password" /\ resp.status = 201

\* The token a redemption route was called with.
RedeemedToken ==
    IF resp.op = "confirmed_email" THEN resp.req ELSE resp.req.token

\* C25: the confirmation and the reset flow mint the same token for the same
\* e-mail and time (sub the e-mail, exp seven days after iat or a second
\* less, the configured secret), and both redemption routes accept every
\* mailed token while it is unexpired and refuse it afterwards, whichever
\* flow mailed it.
C25_PurposeTokensInterchangeable ==
    /\ \A m \in mails :
           \E turned \in {0, 1} :
               m.token = JwtEncode(m.recipient, m.token.iat,
                                   m.token.iat + EmailTokenSeconds - turned)
    /\ resp.op \in {"confirmed_email", "perform_reseted_password"} =>
           \A m \in mails :
               m.token = RedeemedToken =>
                   resp.status =
                       (IF Seconds(clock) <= m.token.exp THEN 201 ELSE 422)

\* C25 witness: the confirmation route has confirmed a user with a token
\* that only the reset flow mailed.
C25_Witness ==
    /\ resp.op = "confirmed_email" /\ resp.detail = "has been confirmed"
    /\ \E m \in mails : m.token = resp.req
    /\ \A m \in mails :
           m.token = resp.req => m.template = "reset_password_email.html"

\* A step in which the request of slot p goes on or ends by itself: it is
\* not cancelled, and the cache store does not fail.
Proceeds(p) ==
    /\ task'[p] # task[p]
    /\ ~(task'[p] = Idle /\ resp' = NoResp)
    /\ ~(resp'.op = "get_current_user" /\ resp'.status = 500)

\* C26: when the cache read of a resolution finds an entry under the raw
\* token, the resolution returns the entry's snapshot in that step, without
\* the store read and the cache write, and cache and store stay as they are.
C26_CacheHitReturnsAtOnce ==
    [][\A p \in Tasks :
           (/\ task[p].pc = "cache_get"
            /\ Proceeds(p)
            /\ \E e \in cache : e.key = task[p].token) =>
               LET e == CHOOSE e \in cache : e.key = task[p].token
               IN  /\ resp' = Response("get_current_user",
                                       Bearer(task[p].token, task[p].now),
                                       200, "hit", Loads(e.value))
                   /\ task'[p] = Idle
                   /\ cache' = cache
                   /\ users' = users]_vars

\* C26 witness: a resolution has returned from the cache while the other
\* slot is in the middle of its own resolution.
C26_Witness ==
    /\ IsResolve /\ resp.detail = "hit"
    /\ \E p \in Tasks : task[p].pc = "db_get"

\* C28: a resolution whose token has another signature, or fails the
\* iat <= now <= exp check, or whose subject is no stored user, ends in 401;
\* and the step that ends a resolution in 401 ends it for good, writes no
\* cache entry and changes no stored user.
C28_FailureIsTerminal ==
    [][/\ (resp'.op = "get_current_user"
              /\ (resp'.req.token.key # SECRET \/ ~CheckedInTime(resp'))) =>
              resp'.status = 401
       /\ \A p \in Tasks :
              (/\ task[p].pc = "db_get"
               /\ Proceeds(p)
               /\ \A u \in users : u.username # task[p].token.sub) =>
                  (resp'.op = "get_current_user" /\ resp'.status = 401)
       /\ (resp'.op = "get_current_user" /\ resp'.status = 401) =>
              /\ cache' = cache
              /\ users' = users
              /\ \A p \in Tasks : task'[p] \in {task[p], Idle}]_vars

\* C28 witness: a resolution of a valid token whose subject is no stored
\* user has failed while the cache holds an entry of another token.
C28_Witness ==
    /\ IsResolve /\ resp.status = 401
    /\ resp.req.token.key = SECRET /\ CheckedInTime(resp)
    /\ cache # {}

\* C29: under concurrent resolutions, cancelled ones included, every cache
\* entry is a snapshot whose username is its token's sub, with the token's
\* exp for expiry, and every resolution that returns a user returns one
\* whose username is the token's sub.
C29_ConcurrentWritesAgree ==
    /\ \A e \in cache :
           /\ Loads(e.value) # DecodeError
           /\ Loads(e.value).username = e.key.sub
           /\ e.exat = e.key.exp
    /\ (IsResolve /\ resp.status = 200) =>
           resp.body.username = resp.req.token.sub

\* C29 witness: one resolution has written the entry of a token while the
\* other, having missed as well, is about to write it again.
C29_Witness ==
    /\ IsResolve /\ resp.detail = "miss"
    /\ CacheGetUser(resp.req.token) # None
    /\ \E p \in Tasks :
           task[p].pc = "cache_set" /\ task[p].token = resp.req.token

\* C27: a resolution that has missed the cache and found the token's subject
\* in the store (it stands before its cache write) ends by returning that
\* user, and the cache then holds, under the raw token, a snapshot equal to
\* the returned user with the token's exp for expiry.
C27_MissReturnsAndPopulates ==
    [][\A p \in Tasks :
           (task[p].pc = "cache_set" /\ task'[p] # task[p]) =>
               /\ resp'.op = "get_current_user"
               /\ resp'.status = 200
               /\ resp'.body = task[p].user
               /\ \E e \in cache' :
                      /\ e.key = task[p].token
                      /\ Loads(e.value) = resp'.body
                      /\ e.exat = task[p].token.exp]_vars

\* C30: the user a resolution returns has the email, role, confirmed and
\* avatar of the stored row of the token's subject, also when the row was
\* changed after an earlier resolution of the token filled the cache.
C30_ReturnedUserIsCurrent ==
    (IsResolve /\ resp.status = 200) =>
        LET user == GetUserByUsername(resp.req.token.sub)
        IN  /\ user # None
            /\ resp.body.email = user.email
            /\ resp.body.role = user.role
            /\ resp.body.confirmed = user.confirmed
            /\ resp.body.avatar = user.avatar

\* The stored contacts a query selects: those of its user_id that pass every
\* filter it carries.
Selected(q) ==
    {c \in contacts :
        /\ c.user_id = q.user_id
        /\ q.first_name = "" \/ Upper(c.first_name) = Upper(q.first_name)
        /\ q.last_name = "" \/ Upper(c.last_name) = Upper(q.last_name)
        /\ q.email = "" \/ Upper(c.email) = Upper(q.email)
        /\ q.date_from = NoDate \/ (c.date # NoDate /\ q.date_from <= c.date)
        /\ q.date_to = NoDate \/ (c.date # NoDate /\ c.date <= q.date_to)}

\* The selected contacts left once the first q.skip are dropped.
AfterSkip(q) ==
    IF Cardinality(Selected(q)) > q.skip
    THEN Cardinality(Selected(q)) - q.skip ELSE 0

\* A list of n different selected contacts.
ListsSelected(rows, q, n) ==
    /\ Len(rows) = n
    /\ \A i \in 1..Len(rows) : rows[i] \in Selected(q)
    /\ \A i, j \in 1..Len(rows) : i # j => rows[i] # rows[j]

\* C23 as stated: get_list_by_query(q) returns the selected contacts less
\* the first q.skip, and at most q.limit of them.
C23_ListAtMostLimit ==
    resp.op = "get_list_by_query" =>
        ListsSelected(resp.body, resp.req,
                      IF AfterSkip(resp.req) < resp.req.limit
                      THEN AfterSkip(resp.req) ELSE resp.req.limit)

\* C23, amended: get_list_by_query(q) returns the selected contacts less the
\* first q.skip, at most q.limit of them when q.limit is not 0 and all of
\* them when it is 0.
C23_ListLimitedUnlessZero ==
    resp.op = "get_list_by_query" =>
        ListsSelected(resp.body, resp.req,
                      IF resp.req.limit = 0 \/ AfterSkip(resp.req) < resp.req.limit
                      THEN AfterSkip(resp.req) ELSE resp.req.limit)

\* C23 witness: a search with a filter that excludes a contact of the owner
\* has dropped one selected contact and returned one, leaving one out.
C23_Witness ==
    /\ resp.op = "get_list_by_query"
    /\ resp.req.skip = 1 /\ resp.req.limit = 1 /\ Len(resp.body) = 1
    /\ resp.req.date_to # NoDate
    /\ Cardinality(Selected(resp.req)) = 2
    /\ \E c \in contacts : c.user_id = resp.req.user_id /\ c \notin Selected(resp.req)

\* The contacts of other owners than user_id.
OfOthers(rows, user_id) == {c \in rows : c.user_id # user_id}

\* C22: a search for a user returns only that user's contacts; an update or
\* a removal for a user leaves every other owner's contact as it is, and
\* when the id it names belongs to another owner it ends as not found and
\* changes nothing.
C22_ContactsIsolatedPerOwner ==
    [][/\ resp'.op = "get_list_by_query" =>
              \A i \in 1..Len(resp'.body) :
                  resp'.body[i].user_id = resp'.req.user_id
       /\ resp'.op \in {"update_contact", "remove_contact"} =>
              /\ OfOthers(contacts', resp'.req.user_id)
                     = OfOthers(contacts, resp'.req.user_id)
              /\ \A c \in contacts' \ contacts :
                     \E d \in contacts \ contacts' : d.id = c.id
              /\ (/\ \E c \in OfOthers(contacts, resp'.req.user_id) :
                         c.id = resp'.req.id
                  /\ resp'.detail # "ValueError") =>
                     (resp'.detail = "ContactNotFoundError"
                         /\ contacts' = contacts)]_vars

\* C22 witness: a removal named a stored contact of another owner and was
\* answered as not found.
C22_Witness ==
    /\ resp.op = "remove_contact"
    /\ resp.detail = "ContactNotFoundError"
    /\ \E c \in contacts : c.id = resp.req.id /\ c.user_id # resp.req.user_id

\* C24: no two stored contacts share an id; a creation adds one contact, with
\* the fields and the owner given and an id no stored contact had; get_by_id
\* returns the stored contact of that id and owner, and None when there is
\* none; a removal takes away the contact of the id alone.
C24_CreateReadRemove ==
    [][/\ \A c, d \in contacts' : c.id = d.id => c = d
       /\ resp'.op = "create_contact" =>
              \E id \in ContactIds \ {c.id : c \in contacts} :
                  contacts' = contacts
                      \cup {Contact(id, resp'.req.body, resp'.req.user_id)}
       /\ resp'.op = "get_by_id" =>
              /\ resp'.body # None =>
                     /\ resp'.body \in contacts
                     /\ resp'.body.id = resp'.req.id
                     /\ resp'.body.user_id = resp'.req.user_id
              /\ resp'.body = None =>
                     \A c \in contacts :
                         c.id # resp'.req.id \/ c.user_id # resp'.req.user_id
       /\ (resp'.op = "remove_contact"
              /\ resp'.detail # "ContactNotFoundError") =>
              /\ contacts' = {c \in contacts : c.id # resp'.req.id}
              /\ contacts' # contacts]_vars

\* C24 witness: a contact with the fields and the owner of a stored one has
\* been created under another id.
C24_Witness ==
    /\ resp.op = "create_contact"
    /\ \E c, d \in contacts :
           /\ c.id # d.id
           /\ [c EXCEPT !.id = d.id] = d
           /\ transform_contact_to_contract_model(c) = resp.body

\* C31: an update that succeeds replaces the contact of the given id and
\* user by one with the same id and user_id and the body's values in every
\* other field, and changes no other contact.
C31_UpdateKeepsOwnerAndId ==
    [][(resp'.op = "update_contact" /\ resp'.status = 200) =>
           \E c \in contacts :
               /\ c.id = resp'.req.id
               /\ c.user_id = resp'.req.user_id
               /\ contacts' = (contacts \ {c})
                      \cup {[id |-> c.id, user_id |-> c.user_id,
                             first_name |-> resp'.req.contact.first_name,
                             last_name |-> resp'.req.contact.last_name,
                             email |-> resp'.req.contact.email,
                             date |-> resp'.req.contact.date]}]_vars

\* C31 witness: the second user has updated their contact of id 1, and the
\* store holds it with the values of the body.
C31_Witness ==
    /\ resp.op = "update_contact" /\ resp.status = 200
    /\ resp.req.user_id = 2 /\ resp.req.id = 1
    /\ \E c \in contacts : transform_contact_to_contract_model(c) = resp.body

\* C32: an update or a removal that fails leaves the contacts as they were:
\* an update whose path id differs from the body's id ends in ValueError, an
\* update or removal of an id the user has no contact of ends in
\* ContactNotFoundError.
C32_FailureChangesNothing ==
    [][resp'.op \in {"update_contact", "remove_contact"} =>
           /\ resp'.status # 200 => contacts' = contacts
           /\ (resp'.op = "update_contact"
                  /\ resp'.req.id # resp'.req.contact.id) =>
                  resp'.detail = "ValueError"
           /\ (/\ resp'.op = "update_contact" => 
                      resp'.req.id = resp'.req.contact.id
               /\ \A c \in contacts :
                      c.id # resp'.req.id \/ c.user_id # resp'.req.user_id) =>
                  resp'.detail = "ContactNotFoundError"]_vars

\* C33: a creation answers with the created contact's model, also for a body
\* without a date, which is stored with no date; none fails once the contact
\* is stored.
C33_CreateWithoutDate ==
    [][resp'.op = "create_contact" =>
           /\ resp'.status = 201
           /\ \E c \in contacts' \ contacts :
                  /\ c.date = resp'.req.body.date
                  /\ resp'.body = transform_contact_to_contract_model(c)]_vars

\* C37: every purpose token in a mail, of the confirmation and of the reset
\* flow, has exp - iat = 7 days in whole seconds.
C37_PurposeTokenLivesSevenDays ==
    \A m \in mails : m.token.exp - m.token.iat = EmailTokenSeconds

\* C34: a user whose confirmed flag is true keeps it true through every
\* step of register, confirm, resend, login, password reset and avatar
\* update.
C34_ConfirmedIsMonotonic ==
    [][\A u \in users :
           u.confirmed => \A v \in users' : v.id = u.id => v.confirmed]_vars

\* C34 witness: a confirmed user, whose avatar was changed since, has had
\* the password reset with a mailed token.
C34_Witness ==
    /\ resp.op = "perform_reseted_password" /\ resp.status = 201
    /\ \E u \in users :
           /\ u.confirmed /\ u.avatar # "None"
           /\ u.email = resp.req.token.sub

\* The mails a step has enqueued.
Enqueued == mails' \ mails

\* C35: the subject of the token of every mail is the e-mail of a stored
\* user; a registration that creates a user enqueues one confirmation mail
\* for that user, a confirm_email request enqueues a mail only for the
\* e-mail of a stored user who is not confirmed, a reset_password request
\* only for the e-mail of a stored user, and no other step enqueues any.
C35_MailsOnlyForUsers ==
    [][/\ \A m \in mails' : \E u \in users' : u.email = m.token.sub
       /\ mails \subseteq mails'
       /\ (resp'.op = "register_user" /\ resp'.status = 201) =>
              \E m \in Enqueued :
                  /\ Enqueued = {m}
                  /\ m.template = "verify_email.html"
                  /\ m.token.sub = resp'.body.email
                  /\ \E u \in users' \ users : u.email = m.recipient
       /\ (resp'.op = "confirm_email" /\ Enqueued # {}) =>
              \E m \in Enqueued, u \in users :
                  /\ Enqueued = {m}
                  /\ m.template = "verify_email.html"
                  /\ u.email = resp'.req /\ ~u.confirmed
                  /\ m.token.sub = u.email
       /\ (resp'.op = "reset_password" /\ Enqueued # {}) =>
              \E m \in Enqueued, u \in users :
                  /\ Enqueued = {m}
                  /\ m.template = "reset_password_email.html"
                  /\ u.email = resp'.req
                  /\ m.token.sub = u.email
       /\ Enqueued # {} =>
              /\ resp'.op \in {"register_user", "confirm_email", "reset_password"}
              /\ resp'.status = 201]_vars

\* C35 witness: a confirmation mail has been sent anew, on request, to a user
\* who has not confirmed, and two mails are enqueued.
C35_Witness ==
    /\ resp.op = "confirm_email" /\ resp.detail = "Please check your email"
    /\ Cardinality(mails) = 2
    /\ \A m \in mails : m.recipient = resp.req

\* A login request names no user, or a user and another password than theirs.
LoginUnknownOrWrong ==
    LET user == GetUserByUsername(resp.req.username)
    IN  \/ user = None
        \/ ~verify_password(resp.req.password, user.hashed_password)

\* C36: login_user answers an unknown username and a wrong password of a
\* known one with the same 401 "Incorrect user or password", and
\* reset_password answers with the same message whether or not the e-mail is
\* a user's.
C36_ExistenceNotRevealed ==
    /\ (resp.op = "login_user" /\ LoginUnknownOrWrong) =>
           resp = Response("login_user", resp.req, 401,
                           "Incorrect user or password", None)
    /\ resp.op = "reset_password" =>
           resp = Response("reset_password", resp.req, 201,
                           "Please check your email for reset password", None)

\* C36 witness: a reset was requested for an e-mail of no user while another
\* e-mail has a user.
C36_Witness ==
    /\ resp.op = "reset_password"
    /\ GetUserByEmail(resp.req) = None
    /\ users # {}

====
